---- MODULE Spec2Model ----
(***************************************************************************)
(* Model of the Excel sheet renamer (src/sheet.py).                        *)
(*                                                                         *)
(* Strings are sequences of one-character strings, so that slicing,        *)
(* stripping, regular-expression matching and formatting are computed      *)
(* character by character as Python computes them.                         *)
(***************************************************************************)
EXTENDS Integers, Sequences, FiniteSets, TLC

VARIABLES
    \* --- formula rewriting (replace_sheet_names_in_formula) ---
    sheet_name_mapping,   \* dict old title -> new name, in insertion order
    fparts,               \* how the formula text was put together
    formula,              \* the formula text handed to the rewriter
    new_formula,          \* result of the first pass
    new_formula2,         \* result of a second pass over new_formula
    rpc,                  \* "ready" | "once" | "twice" | "off"
    \* --- export of one workbook (the Export button of a file) ---
    file_bytes,           \* the uploaded workbook
    edited_df,            \* the table of proposed names, by row label
    export_result,        \* outcome of the export handler
    epc,                  \* "ready" | "done" | "off"
    \* --- default new sheet names ---
    prefix,               \* the prefix typed for the file
    idx,                  \* 0-based row label of the sheet
    old_name,             \* the sheet's original title
    default_new_name,     \* the default written to the New Name column
    dpc,                  \* "ready" | "done" | "off"
    \* --- the Streamlit session: script runs over the uploaded files ---
    uploaded_files,       \* what the file uploader returns: <<[name, bytes]>>
    w_prefix,             \* widget state: text of prefix_input_i
    w_edit,               \* widget state: the user's edits in data_editor_i
    ss_prefix,            \* st.session_state['prefix_i'], where set
    ss_sheet_data,        \* st.session_state['sheet_data_i'], where set (a frame id)
    frames,               \* the DataFrame objects, by identity
    file_data,            \* st.session_state.file_data
    page                  \* what the last script run rendered

rvars == <<sheet_name_mapping, fparts, formula, new_formula, new_formula2, rpc>>
evars == <<file_bytes, edited_df, export_result, epc>>
dvars == <<prefix, idx, old_name, default_new_name, dpc>>
svars == <<uploaded_files, w_prefix, w_edit, ss_prefix, ss_sheet_data, frames,
           file_data, page>>
vars == <<rvars, evars, dvars, svars>>

ROff ==
    /\ sheet_name_mapping = <<>> /\ fparts = <<>> /\ formula = <<>>
    /\ new_formula = <<>> /\ new_formula2 = <<>> /\ rpc = "off"

EOff ==
    /\ file_bytes = <<>> /\ edited_df = <<>> /\ export_result = <<>> /\ epc = "off"

DOff ==
    /\ prefix = <<>> /\ idx = 0 /\ old_name = <<>> /\ default_new_name = <<>>
    /\ dpc = "off"

SOff ==
    /\ uploaded_files = <<>> /\ w_prefix = <<>> /\ w_edit = <<>> /\ ss_prefix = <<>>
    /\ ss_sheet_data = <<>> /\ frames = <<>> /\ file_data = <<>> /\ page = <<>>

(***************************************************************************)
(* Bounds                                                                  *)
(***************************************************************************)
MaxSheets == 2

(***************************************************************************)
(* Python string helpers                                                   *)
(***************************************************************************)
QUOTE == "'"
BANG == "!"
None == <<"<None>">>

CharAt(s, p) == IF p >= 1 /\ p <= Len(s) THEN s[p] ELSE "<eos>"

\* s[:n]
Prefix(s, n) == IF Len(s) <= n THEN s ELSE SubSeq(s, 1, n)

\* s occurs in f starting at position p
OccursAt(f, p, s) ==
    /\ p >= 1
    /\ p + Len(s) - 1 <= Len(f)
    /\ SubSeq(f, p, p + Len(s) - 1) = s

Contains(s, c) == \E i \in 1..Len(s) : s[i] = c

\* str.strip("'"): drops every leading and every trailing quote character
RECURSIVE lstrip(_)
lstrip(s) == IF Len(s) > 0 /\ s[1] = QUOTE THEN lstrip(Tail(s)) ELSE s

RECURSIVE rstrip(_)
rstrip(s) ==
    IF Len(s) > 0 /\ s[Len(s)] = QUOTE THEN rstrip(SubSeq(s, 1, Len(s) - 1)) ELSE s

strip(s) == rstrip(lstrip(s))

(***************************************************************************)
(* dict with insertion order: a sequence of <<key, value>> pairs           *)
(***************************************************************************)
DictKeys(d) == [i \in 1..Len(d) |-> d[i][1]]

DictHas(d, k) == \E i \in 1..Len(d) : d[i][1] = k

DictGet(d, k, default) ==
    IF DictHas(d, k) THEN d[CHOOSE i \in 1..Len(d) : d[i][1] = k][2] ELSE default

DictSet(d, k, v) ==
    IF DictHas(d, k)
    THEN [i \in 1..Len(d) |-> IF d[i][1] = k THEN <<k, v>> ELSE d[i]]
    ELSE Append(d, <<k, v>>)

(***************************************************************************)
(* sheet_ref_regex = re.compile(r"('?(%s)'?)!" % '|'.join(escaped keys))   *)
(* A backtracking match at position p tries, in this order: the optional   *)
(* opening quote taken before not taken, the alternatives left to right,   *)
(* the optional closing quote taken before not taken; the first attempt    *)
(* that is followed by '!' is the match.                                   *)
(***************************************************************************)
Attempt(f, p, names, q1, k, q2) ==
    LET a == p + q1
        b == a + Len(names[k])
        c == b + q2
    IN  /\ (q1 = 1 => CharAt(f, p) = QUOTE)
        /\ OccursAt(f, a, names[k])
        /\ (q2 = 1 => CharAt(f, b) = QUOTE)
        /\ CharAt(f, c) = BANG

Rank(n, q1, k, q2) == (1 - q1) * 2 * n + (k - 1) * 2 + (1 - q2)

Attempts(f, p, names) ==
    { t \in (0..1) \X (1..Len(names)) \X (0..1) :
        Attempt(f, p, names, t[1], t[2], t[3]) }

\* variant: the alternation commits to the first name that occurs at the
\* position and never tries a later one
sheet_ref_regex_committed(f, p, names) ==
    LET ok == { t \in Attempts(f, p, names) :
                    \A j \in 1..(t[2] - 1) : ~OccursAt(f, p + t[1], names[j]) }
    IN  IF ok = {} THEN <<0, <<>>>>
        ELSE LET t == CHOOSE t \in ok :
                        \A u \in ok : Rank(Len(names), t[1], t[2], t[3])
                                        <= Rank(Len(names), u[1], u[2], u[3])
                 e == p + t[1] + Len(names[t[2]]) + t[3]
             IN  <<e, SubSeq(f, p, e - 1)>>

\* the match of sheet_ref_regex at p: <<end position, group(1)>>, or <<0, <<>>>>
sheet_ref_regex(f, p, names) ==
    LET ok == Attempts(f, p, names)
    IN  IF ok = {} THEN <<0, <<>>>>
        ELSE LET t == CHOOSE t \in ok :
                        \A u \in ok : Rank(Len(names), t[1], t[2], t[3])
                                        <= Rank(Len(names), u[1], u[2], u[3])
                 e == p + t[1] + Len(names[t[2]]) + t[3]
             IN  <<e, SubSeq(f, p, e - 1)>>

SpecialChars == {"-", "+", "(", ")", "[", "]"}

\* the quoting test of replacer
needs_quotes(name) == Contains(name, " ") \/ \E c \in SpecialChars : Contains(name, c)

\* replacer(match): group(1) -> replacement text
replacer(sheet_ref, mapping) ==
    LET sheet_name == strip(sheet_ref)
        new_sheet_name == DictGet(mapping, sheet_name, sheet_name)
    IN  IF needs_quotes(new_sheet_name)
        THEN <<QUOTE>> \o new_sheet_name \o <<QUOTE, BANG>>
        ELSE new_sheet_name \o <<BANG>>

\* sheet_ref_regex.sub(replacer, formula): leftmost, non-overlapping, one pass
RECURSIVE regex_sub(_, _, _, _)
regex_sub(f, p, names, mapping) ==
    IF p > Len(f) THEN <<>>
    ELSE LET m == sheet_ref_regex(f, p, names)
         IN  IF m[1] = 0
             THEN <<f[p]>> \o regex_sub(f, p + 1, names, mapping)
             ELSE replacer(m[2], mapping) \o regex_sub(f, m[1] + 1, names, mapping)

\* the regex is compiled from the keys of the mapping the function is called with
replace_sheet_names_in_formula(f, mapping) ==
    regex_sub(f, 1, DictKeys(mapping), mapping)

(***************************************************************************)
(* Decimal numerals                                                        *)
(***************************************************************************)
Digits == <<"0", "1", "2", "3", "4", "5", "6", "7", "8", "9">>

IsDigit(c) == \E d \in 1..10 : Digits[d] = c

DigitVal(c) == (CHOOSE d \in 1..10 : Digits[d] = c) - 1

\* int(s) for a string of decimal digits
RECURSIVE int(_)
int(s) == IF Len(s) = 0 THEN 0
          ELSE 10 * int(SubSeq(s, 1, Len(s) - 1)) + DigitVal(s[Len(s)])

\* str(n) for n >= 0
RECURSIVE str(_)
str(n) == IF n < 10 THEN <<Digits[n + 1]>>
          ELSE str(n \div 10) \o <<Digits[(n % 10) + 1]>>

(***************************************************************************)
(* Assignment to sheet.title.  The assignment runs the title setter of     *)
(* the workbook library: it rejects the characters \ * ? : / [ ] and,      *)
(* when the new value differs from the sheet's current title and some      *)
(* sheet of the workbook already carries that value (compared without      *)
(* case), appends the next free number to it.                              *)
(***************************************************************************)
UPPER == <<"A", "B", "C", "D", "E", "F", "G", "H", "I", "J", "K", "L", "M",
           "N", "O", "P", "Q", "R", "S", "T", "U", "V", "W", "X", "Y", "Z">>
LOWER == <<"a", "b", "c", "d", "e", "f", "g", "h", "i", "j", "k", "l", "m",
           "n", "o", "p", "q", "r", "s", "t", "u", "v", "w", "x", "y", "z">>

LowerChar(c) ==
    IF \E i \in 1..26 : UPPER[i] = c THEN LOWER[CHOOSE i \in 1..26 : UPPER[i] = c] ELSE c

lower(s) == [i \in 1..Len(s) |-> LowerChar(s[i])]

RECURSIVE join(_)
join(names) ==
    IF Len(names) = 0 THEN <<>>
    ELSE IF Len(names) = 1 THEN names[1]
    ELSE names[1] \o <<",">> \o join(Tail(names))

\* end of the maximal run of digits that starts at p (p - 1 when there is none)
RECURSIVE DigitsEnd(_, _)
DigitsEnd(s, p) == IF IsDigit(CharAt(s, p)) THEN DigitsEnd(s, p + 1) ELSE p - 1

\* the count groups of re.findall("(value)(\d*),?", joined, re.I)
RECURSIVE findall_counts(_, _, _)
findall_counts(joined, p, value) ==
    IF p > Len(joined) THEN <<>>
    ELSE IF /\ p + Len(value) - 1 <= Len(joined)
            /\ lower(SubSeq(joined, p, p + Len(value) - 1)) = lower(value)
         THEN LET d1 == p + Len(value)
                  d2 == DigitsEnd(joined, d1)
                  e  == IF CharAt(joined, d2 + 1) = "," THEN d2 + 1 ELSE d2
              IN  <<SubSeq(joined, d1, d2)>> \o findall_counts(joined, e + 1, value)
         ELSE findall_counts(joined, p + 1, value)

SeqMax(ns) == IF Len(ns) = 0 THEN 0
              ELSE CHOOSE m \in { ns[i] : i \in 1..Len(ns) } :
                        \A i \in 1..Len(ns) : ns[i] <= m

avoid_duplicate_name(names, value) ==
    IF \E i \in 1..Len(names) : lower(names[i]) = lower(value)
    THEN LET found  == findall_counts(join(names), 1, value)
             counts == SelectSeq(found, LAMBDA d : Len(d) > 0)
             highest == SeqMax([i \in 1..Len(counts) |-> int(counts[i])])
         IN  value \o str(highest + 1)
    ELSE value

InvalidTitleChars == {"\\", "*", "?", ":", "/", "[", "]"}

\* sheet.title = value, for a sheet currently titled cur in a workbook whose
\* sheets are titled names: <<TRUE, title set>> or <<FALSE, ...>> on ValueError
title_setter(names, cur, value) ==
    IF \E c \in InvalidTitleChars : Contains(value, c)
    THEN <<FALSE, cur>>
    ELSE IF cur # value THEN <<TRUE, avoid_duplicate_name(names, value)>>
    ELSE <<TRUE, value>>

(***************************************************************************)
(* Default new sheet names                                                 *)
(***************************************************************************)
\* f"{n:02d}" for n >= 0
format_02d(n) == IF n < 10 THEN <<"0">> \o str(n) ELSE str(n)

\* variant: the name is not cut to 31 characters
DefaultNewName_uncut(pfx, i, name) ==
    IF Len(pfx) > 0
    THEN pfx \o <<".">> \o format_02d(i + 1) \o <<" ">> \o name
    ELSE name

\* default_new_name = (f"{prefix}.{idx+1:02d} {old_name}" if prefix else old_name)[:31]
DefaultNewName(pfx, i, name) ==
    Prefix(IF Len(pfx) > 0
           THEN pfx \o <<".">> \o format_02d(i + 1) \o <<" ">> \o name
           ELSE name,
           31)

(***************************************************************************)
(* The export of one workbook (the body of the try block)                  *)
(* A workbook is a sequence of sheets [title, cells]; a cell is            *)
(* [data_type, value]; file bytes are [ok, sheets].  A table of proposed   *)
(* names maps row labels 0, 1, ... to [orig, new].                         *)
(***************************************************************************)
MaxTitleLen == 31

SheetNames(sheets) == [i \in 1..Len(sheets) |-> sheets[i].title]

\* for idx, sheet in enumerate(wb.worksheets): sheet_name_mapping[old] = new[:31]
RECURSIVE collect_names(_, _, _, _)
collect_names(sheets, table, i, mapping) ==
    IF i > Len(sheets) THEN [ok |-> TRUE, error |-> "", mapping |-> mapping]
    ELSE IF (i - 1) \notin DOMAIN table
         THEN [ok |-> FALSE, error |-> "KeyError", mapping |-> mapping]
    ELSE IF table[i - 1].new = None
         THEN [ok |-> FALSE, error |-> "TypeError", mapping |-> mapping]
    ELSE collect_names(sheets, table, i + 1,
             DictSet(mapping, sheets[i].title, Prefix(table[i - 1].new, MaxTitleLen)))

\* for sheet in wb.worksheets: sheet.title = sheet_name_mapping[sheet.title]
RECURSIVE update_titles(_, _, _)
update_titles(sheets, mapping, i) ==
    IF i > Len(sheets) THEN [ok |-> TRUE, error |-> "", sheets |-> sheets]
    ELSE IF ~DictHas(mapping, sheets[i].title)
         THEN [ok |-> FALSE, error |-> "KeyError", sheets |-> sheets]
    ELSE LET r == title_setter(SheetNames(sheets), sheets[i].title,
                               DictGet(mapping, sheets[i].title, None))
         IN  IF ~r[1] THEN [ok |-> FALSE, error |-> "ValueError", sheets |-> sheets]
             ELSE update_titles([sheets EXCEPT ![i].title = r[2]], mapping, i + 1)

\* the formula update of one cell
update_cell(cell, mapping) ==
    IF cell.data_type = "f" /\ Len(cell.value) > 0
    THEN [cell EXCEPT !.value = replace_sheet_names_in_formula(cell.value, mapping)]
    ELSE cell

\* for sheet in wb.worksheets: for row ...: for cell in row: ...
update_formulas(sheets, mapping) ==
    [i \in 1..Len(sheets) |->
        [sheets[i] EXCEPT !.cells =
            [j \in 1..Len(sheets[i].cells) |-> update_cell(sheets[i].cells[j], mapping)]]]

\* variant: one loop that looks a name up and assigns the title at once
RECURSIVE rename_while_collecting(_, _, _, _)
rename_while_collecting(sheets, table, i, mapping) ==
    IF i > Len(sheets) THEN [ok |-> TRUE, error |-> "", sheets |-> sheets, mapping |-> mapping]
    ELSE IF (i - 1) \notin DOMAIN table
         THEN [ok |-> FALSE, error |-> "KeyError", sheets |-> sheets, mapping |-> mapping]
    ELSE IF table[i - 1].new = None
         THEN [ok |-> FALSE, error |-> "TypeError", sheets |-> sheets, mapping |-> mapping]
    ELSE LET new == Prefix(table[i - 1].new, MaxTitleLen)
             r == title_setter(SheetNames(sheets), sheets[i].title, new)
         IN  IF ~r[1]
             THEN [ok |-> FALSE, error |-> "ValueError", sheets |-> sheets,
                   mapping |-> mapping]
             ELSE rename_while_collecting([sheets EXCEPT ![i].title = r[2]], table, i + 1,
                                          DictSet(mapping, sheets[i].title, new))

export_workbook_single_loop(bytes, table) ==
    IF ~bytes.ok
    THEN [status |-> "error", error |-> "load", wb |-> <<>>, processed_file |-> None]
    ELSE LET t == rename_while_collecting(bytes.sheets, table, 1, <<>>)
         IN  IF ~t.ok
             THEN [status |-> "error", error |-> t.error, wb |-> t.sheets,
                   processed_file |-> None]
             ELSE LET w == update_formulas(t.sheets, t.mapping)
                  IN  [status |-> "ok", error |-> "", wb |-> w, processed_file |-> w]

\* load, collect the names, update the titles, update the formulas, save.
\* wb is the workbook as it stands at the end or when the exception is raised.
export_workbook(bytes, table) ==
    IF ~bytes.ok
    THEN [status |-> "error", error |-> "load", wb |-> <<>>, processed_file |-> None]
    ELSE LET c == collect_names(bytes.sheets, table, 1, <<>>)
         IN  IF ~c.ok
             THEN [status |-> "error", error |-> c.error, wb |-> bytes.sheets,
                   processed_file |-> None]
             ELSE LET t == update_titles(bytes.sheets, c.mapping, 1)
                  IN  IF ~t.ok
                      THEN [status |-> "error", error |-> t.error, wb |-> t.sheets,
                            processed_file |-> None]
                      ELSE LET w == update_formulas(t.sheets, c.mapping)
                           IN  [status |-> "ok", error |-> "", wb |-> w,
                                processed_file |-> w]

(***************************************************************************)
(* Inputs of the formula rewriter                                          *)
(***************************************************************************)
\* sheet titles a workbook may carry ('!' is a legal title character)
Titles == { <<"A">>, <<"B">>, <<"A", "B">>, <<"B", "A", "B">>, <<"A", "!", "B">> }

\* what the user may type as the new name of a sheet titled t
NewNames(t) == { t, <<"A">>, <<"B">>, <<"A", " ", "B">> }

\* text in front of and behind the reference under test
Pres == { <<>>, <<"'">>, <<"x">>, <<"B">>, <<"'", "'">> }
Posts == { <<>>, <<"x">>, <<"A", "!">>, <<"'", "A", "B", "'", "!">> }

Injective(s) == \A i, j \in 1..Len(s) : s[i] = s[j] => i = j

\* the ordered, unique sheet titles of a workbook
SheetLists == { s \in UNION { [1..n -> Titles] : n \in 1..MaxSheets } : Injective(s) }

Mappings ==
    UNION { { [i \in 1..Len(s) |-> <<s[i], nn[i]>>] :
                nn \in { f \in [1..Len(s) -> UNION { NewNames(t) : t \in Titles }] :
                            \A i \in 1..Len(s) : f[i] \in NewNames(s[i]) } } :
            s \in SheetLists }

FParts == [pre : Pres, name : Titles, lq : 0..1, rq : 0..1, post : Posts]

Quotes(n) == IF n = 1 THEN <<QUOTE>> ELSE <<>>

\* the reference token of fp: optional quote, name, optional quote, '!'
RefText(fp) == Quotes(fp.lq) \o fp.name \o Quotes(fp.rq) \o <<BANG>>

FormulaOf(fp) == fp.pre \o RefText(fp) \o fp.post

(***************************************************************************)
(* Formula rewriting as a state machine: one pass, then a second pass      *)
(***************************************************************************)
InitRewrite ==
    /\ sheet_name_mapping \in Mappings
    /\ fparts \in FParts
    /\ formula = FormulaOf(fparts)
    /\ new_formula = None
    /\ new_formula2 = None
    /\ rpc = "ready"
    /\ EOff /\ DOff /\ SOff

\* new_formula = replace_sheet_names_in_formula(original_formula, sheet_name_mapping)
RewriteOnce ==
    /\ rpc = "ready"
    /\ new_formula' = replace_sheet_names_in_formula(formula, sheet_name_mapping)
    /\ rpc' = "once"
    /\ UNCHANGED <<sheet_name_mapping, fparts, formula, new_formula2, evars, dvars, svars>>

\* the same call applied to the already rewritten text
RewriteTwice ==
    /\ rpc = "once"
    /\ new_formula2' = replace_sheet_names_in_formula(new_formula, sheet_name_mapping)
    /\ rpc' = "twice"
    /\ UNCHANGED <<sheet_name_mapping, fparts, formula, new_formula, evars, dvars, svars>>

NextRewrite == RewriteOnce \/ RewriteTwice

SpecRewrite == InitRewrite /\ [][NextRewrite]_vars

(***************************************************************************)
(* Properties of the formula rewriter                                      *)
(***************************************************************************)
Keys == { sheet_name_mapping[i][1] : i \in 1..Len(sheet_name_mapping) }

NewOf(n) == DictGet(sheet_name_mapping, n, n)

\* M[N]! with M[N] in one pair of quotes exactly when it needs them
NewRef(n) ==
    IF needs_quotes(NewOf(n))
    THEN <<QUOTE>> \o NewOf(n) \o <<QUOTE, BANG>>
    ELSE NewOf(n) \o <<BANG>>

EndsWith(s, t) == Len(t) <= Len(s) /\ SubSeq(s, Len(s) - Len(t) + 1, Len(s)) = t

IsInfix(t, s) == \E p \in 1..Len(s) : OccursAt(s, p, t)

Plain(n) == ~Contains(n, QUOTE) /\ ~Contains(n, BANG)

Rewritten == rpc \in {"once", "twice"}

\* the reference under test is written N! or 'N'! for an old name N
RefToKey == fparts.name \in Keys /\ fparts.lq = fparts.rq

\* the reference under test is not the tail of a reference to a longer old name
NotTailOfLongerKey ==
    \A k \in Keys : Len(k) > Len(fparts.name) => ~EndsWith(fparts.pre \o fparts.name, k)

\* an unbalanced quote directly in front of an unquoted reference belongs to the token
PreKept ==
    IF fparts.lq = 0 /\ Len(fparts.pre) > 0 /\ fparts.pre[Len(fparts.pre)] = QUOTE
    THEN SubSeq(fparts.pre, 1, Len(fparts.pre) - 1)
    ELSE fparts.pre

\* C1: every reference to an old name N, written N! or 'N'!, is replaced by
\* M[N]!, quoted exactly when M[N] contains a space or one of - + ( ) [ ];
\* here for a formula that begins with the reference, a name that contains
\* '!' being referred to in its quoted form.
C1_ReferenceReplaced ==
    (/\ Rewritten
     /\ RefToKey
     /\ fparts.pre = <<>>
     /\ Contains(fparts.name, BANG) => fparts.lq = 1)
        => OccursAt(new_formula, 1, NewRef(fparts.name))

\* C3: text in which an old name followed by '!' is only the tail of a longer
\* name that is not a workbook sheet is left unchanged by the rewrite.
C3_UnrelatedTextUnchanged ==
    (/\ Rewritten
     /\ fparts.pre = <<"x">> /\ fparts.lq = 0 /\ fparts.rq = 0 /\ fparts.post = <<>>
     /\ fparts.name \in Keys
     /\ fparts.pre \o fparts.name \notin Keys)
        => new_formula = formula

IsIdentity == \A i \in 1..Len(sheet_name_mapping) :
                    sheet_name_mapping[i][2] = sheet_name_mapping[i][1]

IsSwap ==
    /\ Len(sheet_name_mapping) = 2
    /\ sheet_name_mapping[1][2] = sheet_name_mapping[2][1]
    /\ sheet_name_mapping[2][2] = sheet_name_mapping[1][1]

HasReference(f) ==
    \E p \in 1..Len(f) : sheet_ref_regex(f, p, DictKeys(sheet_name_mapping))[1] # 0

\* C4: a second pass with the same mapping (a) returns the result of the first
\* pass when the mapping is the identity, for every formula, and (b) returns a
\* different result when the mapping swaps two names and the formula
\* references one of them.
C4_SecondPass ==
    rpc = "twice" =>
        /\ IsIdentity => new_formula2 = new_formula
        /\ (IsSwap /\ HasReference(formula)) => new_formula2 # new_formula

\* C8: when an old name is a prefix, suffix or substring of another old name
\* and neither contains a quote or '!', a reference to the longer name, quoted
\* or unquoted, is rewritten to the new name of the longer name, whatever the
\* order of the names in the alternation; the text around it is rewritten on
\* its own.
C8_LongerNameWins ==
    (/\ Rewritten
     /\ RefToKey
     /\ \A k \in Keys : Plain(k)
     /\ \E k \in Keys : k # fparts.name /\ IsInfix(k, fparts.name)
     /\ NotTailOfLongerKey)
        => new_formula =
              replace_sheet_names_in_formula(PreKept, sheet_name_mapping)
                \o NewRef(fparts.name)
                \o replace_sheet_names_in_formula(fparts.post, sheet_name_mapping)

\* the shorter name comes first in the alternation, is a prefix of the longer
\* one, maps elsewhere, and the longer name's reference was rewritten
C8_Witness ==
    /\ rpc = "once"
    /\ RefToKey
    /\ Len(sheet_name_mapping) = 2
    /\ sheet_name_mapping[2][1] = fparts.name
    /\ sheet_name_mapping[1][1] # fparts.name
    /\ OccursAt(fparts.name, 1, sheet_name_mapping[1][1])
    /\ Plain(fparts.name)
    /\ sheet_name_mapping[1][2] # sheet_name_mapping[2][2]
    /\ sheet_name_mapping[2][2] # fparts.name
    /\ fparts.pre = <<>>
    /\ new_formula = NewRef(fparts.name) \o fparts.post

(***************************************************************************)
(* Export of one workbook as a state machine                               *)
(***************************************************************************)
LongName == [i \in 1..(MaxTitleLen + 2) |-> IF i <= MaxTitleLen THEN "L" ELSE "M"]

ExportTitles == { <<"A">>, <<"B">>, <<"C">> }

\* what a New Name cell of the table may hold
ExportNewNames == { <<"A">>, <<"B">>, <<"X">>, LongName, <<"[">>, None }

FormulaCell(v) == [data_type |-> "f", value |-> v]
ValueCell(v) == [data_type |-> "s", value |-> v]

ExportCells == { <<>>,
                 <<FormulaCell(<<"A", "!", "1">>)>>,
                 <<ValueCell(<<"A", "!", "1">>), FormulaCell(<<"'", "B", "'", "!">>)>> }

ExportSheetLists ==
    { s \in UNION { [1..n -> ExportTitles] : n \in 1..MaxSheets } : Injective(s) }

Workbooks ==
    UNION { { [i \in 1..Len(s) |-> [title |-> s[i], cells |-> cs[i]]] :
                cs \in [1..Len(s) -> ExportCells] } : s \in ExportSheetLists }

\* tables over the titles ts: any subset of the rows, any proposed names
Tables(ts) ==
    UNION { { [r \in rows |-> [orig |-> ts[r + 1], new |-> nn[r]]] :
                nn \in [rows -> ExportNewNames] } :
            rows \in SUBSET (0..(Len(ts) - 1)) }

InitExport ==
    /\ \E wb \in Workbooks :
          /\ file_bytes = [ok |-> TRUE, sheets |-> wb]
          /\ edited_df \in Tables(SheetNames(wb))
    /\ export_result = <<>>
    /\ epc = "ready"
    /\ ROff /\ DOff /\ SOff

\* if st.button("Export <file>"): try: ... except Exception
Export ==
    /\ epc = "ready"
    /\ export_result' = export_workbook(file_bytes, edited_df)
    /\ epc' = "done"
    /\ UNCHANGED <<file_bytes, edited_df, rvars, dvars, svars>>

\* the next script run starts from the uploaded bytes again
ExportRerun ==
    /\ epc = "done"
    /\ export_result' = <<>>
    /\ epc' = "ready"
    /\ UNCHANGED <<file_bytes, edited_df, rvars, dvars, svars>>

NextExport == Export \/ ExportRerun

SpecExport == InitExport /\ [][NextExport]_vars

(***************************************************************************)
(* Properties of the export of one workbook                                *)
(***************************************************************************)
NSheets == Len(file_bytes.sheets)

OneRowPerSheet ==
    /\ DOMAIN edited_df = 0..(NSheets - 1)
    /\ \A r \in DOMAIN edited_df : edited_df[r].new # None

Proposed(i) == Prefix(edited_df[i - 1].new, MaxTitleLen)

DistinctProposals ==
    \A i, j \in 1..NSheets : Proposed(i) = Proposed(j) => i = j

\* C2: after the title-update loop each sheet's title is the proposed name of
\* its own original title cut to 31 characters, and the sheets keep their
\* order, also when the proposed names permute or chain the original titles
\* (here for proposed names that are mutually distinct).
C2_TitlesAreProposedNames ==
    (epc = "done" /\ export_result.status = "ok" /\ OneRowPerSheet /\ DistinctProposals)
        => /\ Len(export_result.wb) = NSheets
           /\ \A i \in 1..NSheets :
                /\ export_result.wb[i].title = Proposed(i)
                /\ Len(export_result.wb[i].title) <= MaxTitleLen

RowMissing == \E r \in 0..(NSheets - 1) : r \notin DOMAIN edited_df

\* C6: when the table lacks the row of one of the workbook's sheets the export
\* fails, and at the point of failure no sheet title and no formula of the
\* workbook has been changed.
C6_MissingRowFailsUnchanged ==
    (epc = "done" /\ RowMissing)
        => /\ export_result.status = "error"
           /\ export_result.wb = file_bytes.sheets

\* the first sheet has a row that renames it, the second sheet has none
C6_Witness ==
    /\ epc = "done"
    /\ NSheets = 2
    /\ DOMAIN edited_df = {0}
    /\ edited_df[0].new = <<"X">>
    /\ \E j \in 1..Len(file_bytes.sheets[1].cells) :
            file_bytes.sheets[1].cells[j].data_type = "f"
    /\ export_result.status = "error"
    /\ export_result.error = "KeyError"
    /\ export_result.wb[1].title = file_bytes.sheets[1].title

(***************************************************************************)
(* Default names as a state machine                                        *)
(***************************************************************************)
MaxIdx == 100

Run(c, n) == [i \in 1..n |-> c]

DefaultPrefixes == { <<>>, <<"Q", "1">>, Run("P", 27), Run("P", 40) }

\* sheet titles of 1 to 31 characters
DefaultTitles == { <<"A">>, <<"D", "a", "t", "a">>, Run("T", 26), Run("T", 30), Run("T", 31) }

InitDefaults ==
    /\ prefix \in DefaultPrefixes
    /\ idx \in 0..MaxIdx
    /\ old_name \in DefaultTitles
    /\ default_new_name = None
    /\ dpc = "ready"
    /\ ROff /\ EOff /\ SOff

\* one iteration of "for idx in df.index"
ComputeDefault ==
    /\ dpc = "ready"
    /\ default_new_name' = DefaultNewName(prefix, idx, old_name)
    /\ dpc' = "done"
    /\ UNCHANGED <<prefix, idx, old_name, rvars, evars, svars>>

\* the next script run recomputes the default of the row
RecomputeDefault ==
    /\ dpc = "done"
    /\ default_new_name' = None
    /\ dpc' = "ready"
    /\ UNCHANGED <<prefix, idx, old_name, rvars, evars, svars>>

NextDefaults == ComputeDefault \/ RecomputeDefault

SpecDefaults == InitDefaults /\ [][NextDefaults]_vars

DigitSet == { Digits[d] : d \in 1..10 }

\* num is idx+1 written in decimal with at least two digits, zero padded
IsTwoDigitNumeral(num, n) ==
    /\ Len(num) >= 2
    /\ int(num) = n
    /\ Len(num) > 2 => num[1] # "0"

\* C5: the default name is the title itself when the prefix is empty, and
\* otherwise the first 31 characters of "<prefix>.<idx+1, two digits> <title>",
\* so it is at most 31 characters long.
C5_DefaultName ==
    dpc = "done" =>
        IF prefix = <<>>
        THEN default_new_name = old_name
        ELSE /\ Len(default_new_name) <= 31
             /\ \E w \in 2..3 : \E num \in [1..w -> DigitSet] :
                    /\ IsTwoDigitNumeral(num, idx + 1)
                    /\ default_new_name =
                         Prefix(prefix \o <<".">> \o num \o <<" ">> \o old_name, 31)

\* a prefixed name that had to be cut, for a sheet index of two digits
C5_Witness ==
    /\ dpc = "done"
    /\ prefix = <<"Q", "1">>
    /\ idx = 11
    /\ Len(old_name) = 30
    /\ Len(default_new_name) = 31
    /\ SubSeq(default_new_name, 1, 7) = <<"Q", "1", ".", "1", "2", " ", "T">>

(***************************************************************************)
(* The script run over the uploaded files                                  *)
(* The accumulator st carries what the run has changed so far:             *)
(* [file_data, ss_prefix, ss_sheet_data, frames, errors, shown, downloads] *)
(***************************************************************************)
KEEP == <<"<keep>">>

\* the smallest frame id not in use
NewId(fr) == CHOOSE n \in 1..(Cardinality(DOMAIN fr) + 1) : n \notin DOMAIN fr

\* pd.DataFrame({'Original Name': sheet_names, 'New Name': sheet_names})
InitialFrame(names) ==
    [r \in 0..(Len(names) - 1) |-> [orig |-> names[r + 1], new |-> names[r + 1]]]

\* for idx in df.index: df.at[idx, 'New Name'] = default_new_name   (in place)
WithDefaults(df, pfx) ==
    [r \in DOMAIN df |-> [df[r] EXCEPT !.new = DefaultNewName(pfx, r, df[r].orig)]]

\* st.data_editor(df, num_rows="dynamic"): a copy of df with the user's edits:
\* the last row deleted or not, a name typed over the first New Name or not
data_editor(df, edit, nrows) ==
    LET rows == IF edit.deleted THEN DOMAIN df \ {nrows - 1} ELSE DOMAIN df
    IN  [r \in rows |->
            IF r = 0 /\ edit.typed # KEEP THEN [df[r] EXCEPT !.new = edit.typed]
            ELSE df[r]]

\* lines 72-81: first sight of file i: prefix '' and a fresh table
init_session_keys(st, i, sheet_names) ==
    [st EXCEPT
        !.ss_prefix = IF i \in DOMAIN @ THEN @ ELSE @ @@ (i :> <<>>),
        !.frames = IF i \in DOMAIN st.ss_sheet_data THEN @
                   ELSE @ @@ (NewId(@) :> InitialFrame(sheet_names)),
        !.ss_sheet_data = IF i \in DOMAIN @ THEN @ ELSE @ @@ (i :> NewId(st.frames))]

\* lines 86-101: the prefix is stored and the defaults are written into df
apply_prefix(st, i, pfx) ==
    [st EXCEPT !.ss_prefix[i] = pfx,
               !.frames[st.ss_sheet_data[i]] = WithDefaults(@, pfx)]

\* lines 105-111: the edited copy becomes the table of file i
edit_table(st, i, edit, nrows) ==
    [st EXCEPT
        !.frames = @ @@ (NewId(@) :> data_editor(@[st.ss_sheet_data[i]], edit, nrows)),
        !.ss_sheet_data[i] = NewId(st.frames)]

\* lines 113-123: append when file_data has no index i yet, else update index i
store_file_data(st, f, i, pfx) ==
    [st EXCEPT
        !.file_data =
            IF Len(@) <= i
            THEN Append(@, [file_name |-> f.name, file_bytes |-> f.bytes,
                            prefix |-> pfx, sheet_data |-> st.ss_sheet_data[i]])
            ELSE [@ EXCEPT ![i + 1].prefix = pfx,
                           ![i + 1].sheet_data = st.ss_sheet_data[i]],
        !.shown = @ \cup {i}]

\* lines 126-186: the Export button of the file
export_button(st, f, r) ==
    IF r.status = "ok"
    THEN [st EXCEPT !.downloads = @ \cup {<<f.name, r.processed_file>>}]
    ELSE [st EXCEPT !.errors = @ \cup {<<"Failed to process the file", f.name>>}]

export_if_clicked(st, f, i, button) ==
    IF button = <<"export", i>>
    THEN export_button(st, f, export_workbook(f.bytes, st.frames[st.ss_sheet_data[i]]))
    ELSE st

\* one iteration of "for i, uploaded_file in enumerate(uploaded_files)"
process_file(st, f, i, pfx, edit, button) ==
    IF ~f.bytes.ok
    THEN [st EXCEPT !.errors = @ \cup {<<"Failed to read", f.name>>}]
    ELSE export_if_clicked(
            store_file_data(
                edit_table(
                    apply_prefix(
                        init_session_keys(st, i, SheetNames(f.bytes.sheets)),
                        i, pfx),
                    i, edit, Len(f.bytes.sheets)),
                f, i, pfx),
            f, i, button)

RECURSIVE upload_loop(_, _, _, _, _, _)
upload_loop(st, files, i, wp, we, button) ==
    IF i >= Len(files) THEN st
    ELSE upload_loop(process_file(st, files[i + 1], i, wp[i], we[i], button),
                     files, i + 1, wp, we, button)

\* variant: a file that succeeds sets the flag again
export_all_step_resetting(acc, data, fr) ==
    LET r == export_workbook(data.file_bytes, fr[data.sheet_data])
    IN  IF r.status = "ok"
        THEN [acc EXCEPT !.zip = Append(@, <<data.file_name, r.processed_file>>),
                         !.all_files_processed = TRUE]
        ELSE [acc EXCEPT !.errors = @ \cup {<<"Failed to process the file", data.file_name>>},
                         !.all_files_processed = FALSE]

\* for i, data in enumerate(st.session_state.file_data): try ... except ...
\* acc is [zip, all_files_processed, errors]
export_all_step(acc, data, fr) ==
    LET r == export_workbook(data.file_bytes, fr[data.sheet_data])
    IN  IF r.status = "ok"
        THEN [acc EXCEPT !.zip = Append(@, <<data.file_name, r.processed_file>>)]
        ELSE [acc EXCEPT !.errors = @ \cup {<<"Failed to process the file", data.file_name>>},
                         !.all_files_processed = FALSE]

RECURSIVE export_all_loop(_, _, _, _)
export_all_loop(acc, fd, fr, k) ==
    IF k > Len(fd) THEN acc
    ELSE export_all_loop(export_all_step(acc, fd[k], fr), fd, fr, k + 1)

\* the frames still referenced once the run is over
Live(sd, fd) ==
    { sd[i] : i \in DOMAIN sd } \cup { fd[k].sheet_data : k \in 1..Len(fd) }

\* lines 190-250: Export All when its button is pressed
export_all(st, button) ==
    IF button = <<"all">>
    THEN export_all_loop([zip |-> <<>>, all_files_processed |-> TRUE, errors |-> st.errors],
                         st.file_data, st.frames, 1)
    ELSE [zip |-> <<>>, all_files_processed |-> TRUE, errors |-> st.errors]

\* lines 252-261 and the end of the run: what is rendered and what is kept
finish_run(st, acc, button) ==
    /\ file_data' = st.file_data
    /\ ss_prefix' = st.ss_prefix
    /\ ss_sheet_data' = st.ss_sheet_data
    /\ frames' = [id \in Live(st.ss_sheet_data, st.file_data) |-> st.frames[id]]
    /\ page' = [errors |-> IF ~acc.all_files_processed
                           THEN acc.errors \cup {<<"Some files could not be processed.">>}
                           ELSE acc.errors,
                shown |-> st.shown,
                downloads |-> st.downloads,
                clicked |-> IF button = <<"all">> THEN "all"
                            ELSE IF button = <<"none">> THEN "none" ELSE "export",
                zip |-> acc.zip,
                all_files_processed |-> acc.all_files_processed,
                download_all |-> button = <<"all">> /\ acc.all_files_processed,
                info |-> FALSE]

run_with_files(st, button) == finish_run(st, export_all(st, button), button)

\* one run of the script for the given uploads, widget states and pressed button
RunScript(files, wp, we, button) ==
    IF Len(files) = 0
    THEN /\ page' = [errors |-> {}, shown |-> {}, downloads |-> {}, clicked |-> "none",
                     zip |-> <<>>, all_files_processed |-> TRUE,
                     download_all |-> FALSE, info |-> TRUE]
         /\ UNCHANGED <<ss_prefix, ss_sheet_data, frames, file_data>>
    ELSE run_with_files(
            upload_loop([file_data |-> file_data, ss_prefix |-> ss_prefix,
                         ss_sheet_data |-> ss_sheet_data, frames |-> frames,
                         errors |-> {}, shown |-> {}, downloads |-> {}],
                        files, 0, wp, we, button),
            button)

(***************************************************************************)
(* The session as a state machine: every user interaction reruns the       *)
(* script from top to bottom                                               *)
(***************************************************************************)
MaxFiles == 2

FileName(k) == <<"f">> \o str(k)

BadBytes == [ok |-> FALSE, sheets |-> <<>>]

SessionBytes ==
    { BadBytes,
      [ok |-> TRUE,
       sheets |-> <<[title |-> <<"A">>, cells |-> <<FormulaCell(<<"A", "!", "1">>)>>]>>],
      [ok |-> TRUE,
       sheets |-> <<[title |-> <<"A">>, cells |-> <<FormulaCell(<<"B", "!", "1">>)>>],
                    [title |-> <<"B">>, cells |-> <<ValueCell(<<"1">>)>>]>>] }

SessionPrefixes == { <<>>, <<"P">> }

SessionEdits == [deleted : BOOLEAN, typed : {KEEP, <<"X">>}]

NoEdit == [deleted |-> FALSE, typed |-> KEEP]

InitSession ==
    /\ uploaded_files = <<>>
    /\ w_prefix = <<>>
    /\ w_edit = <<>>
    /\ ss_prefix = <<>>
    /\ ss_sheet_data = <<>>
    /\ frames = <<>>
    /\ file_data = <<>>
    /\ page = [errors |-> {}, shown |-> {}, downloads |-> {}, clicked |-> "none",
               zip |-> <<>>, all_files_processed |-> TRUE, download_all |-> FALSE,
               info |-> TRUE]
    /\ ROff /\ EOff /\ DOff

\* the user picks the files; the list stays as it is from then on
Upload ==
    /\ Len(uploaded_files) = 0
    /\ \E n \in 1..MaxFiles : \E content \in [1..n -> SessionBytes] :
          /\ uploaded_files' = [k \in 1..n |-> [name |-> FileName(k), bytes |-> content[k]]]
          /\ w_prefix' = [i \in 0..(n - 1) |-> <<>>]
          /\ w_edit' = [i \in 0..(n - 1) |-> NoEdit]
          /\ RunScript(uploaded_files', w_prefix', w_edit', <<"none">>)
    /\ UNCHANGED <<rvars, evars, dvars>>

\* the user types a prefix for a file that is shown
EditPrefix ==
    /\ \E i \in page.shown : \E p \in SessionPrefixes :
          /\ p # w_prefix[i]
          /\ w_prefix' = [w_prefix EXCEPT ![i] = p]
          /\ RunScript(uploaded_files, w_prefix', w_edit, <<"none">>)
    /\ UNCHANGED <<uploaded_files, w_edit, rvars, evars, dvars>>

\* the user edits the table of a file that is shown
EditTable ==
    /\ \E i \in page.shown : \E e \in SessionEdits :
          /\ e # w_edit[i]
          /\ w_edit[i].deleted => e.deleted
          /\ w_edit' = [w_edit EXCEPT ![i] = e]
          /\ RunScript(uploaded_files, w_prefix, w_edit', <<"none">>)
    /\ UNCHANGED <<uploaded_files, w_prefix, rvars, evars, dvars>>

\* the user presses the Export button of a file that is shown
ClickExport ==
    /\ \E i \in page.shown : RunScript(uploaded_files, w_prefix, w_edit, <<"export", i>>)
    /\ UNCHANGED <<uploaded_files, w_prefix, w_edit, rvars, evars, dvars>>

\* the user presses Export All Files
ClickExportAll ==
    /\ Len(uploaded_files) > 0
    /\ RunScript(uploaded_files, w_prefix, w_edit, <<"all">>)
    /\ UNCHANGED <<uploaded_files, w_prefix, w_edit, rvars, evars, dvars>>

NextSession == Upload \/ EditPrefix \/ EditTable \/ ClickExport \/ ClickExportAll

SpecSession == InitSession /\ [][NextSession]_vars

(***************************************************************************)
(* Properties of the session                                               *)
(***************************************************************************)
NFiles == Len(uploaded_files)

Loaded(i) == uploaded_files[i + 1].bytes.ok

\* the table the user currently sees for uploaded file i
CurrentTable(i) == frames[ss_sheet_data[i]]

\* what the export of uploaded file i yields with its current table
Expected(i) == export_workbook(uploaded_files[i + 1].bytes, CurrentTable(i))

Members(zip, name) == SelectSeq(zip, LAMBDA m : m[1] = name)

\* C7: a failure on one file does not affect the others: after Export All
\* every file that loads and renames is in the archive with the content its
\* current table gives, every file that fails is reported by name, and a file
\* that fails to load at upload is reported while the others are shown.
C7_FailuresAreIsolated ==
    /\ \A i \in 0..(NFiles - 1) :
          IF Loaded(i) THEN i \in page.shown
          ELSE <<"Failed to read", uploaded_files[i + 1].name>> \in page.errors
    /\ page.clicked = "all" =>
          \A i \in 0..(NFiles - 1) : Loaded(i) =>
              IF Expected(i).status = "ok"
              THEN LET ms == Members(page.zip, uploaded_files[i + 1].name)
                   IN  /\ Len(ms) >= 1
                       /\ \A m \in 1..Len(ms) : ms[m][2] = Expected(i).processed_file
              ELSE <<"Failed to process the file", uploaded_files[i + 1].name>>
                      \in page.errors

\* C9: file_data holds at most one entry per uploaded file, the entry at
\* index i carries the name, bytes and current table of uploaded file i, and
\* Export All writes each loaded file to the archive exactly once.
C9_FileDataMirrorsUploads ==
    /\ Len(file_data) <= NFiles
    /\ \A k \in 1..Len(file_data) :
          /\ file_data[k].file_name = uploaded_files[k].name
          /\ file_data[k].file_bytes = uploaded_files[k].bytes
          /\ Loaded(k - 1)
          /\ frames[file_data[k].sheet_data] = CurrentTable(k - 1)
    /\ \A k, l \in 1..Len(file_data) :
          file_data[k].file_name = file_data[l].file_name => k = l
    /\ page.clicked = "all" =>
          \A i \in 0..(NFiles - 1) :
              (Loaded(i) /\ Expected(i).status = "ok")
                  => Len(Members(page.zip, uploaded_files[i + 1].name)) = 1

EntryOk(k) ==
    export_workbook(file_data[k].file_bytes, frames[file_data[k].sheet_data]).status = "ok"

\* C10: after Export All the ZIP download is offered exactly when no entry of
\* file_data raised; otherwise the message that some files could not be
\* processed is shown and nothing is offered, although the entries that
\* succeeded were written to the archive.
C10_DownloadIffAllProcessed ==
    page.clicked = "all" =>
        /\ page.all_files_processed = (\A k \in 1..Len(file_data) : EntryOk(k))
        /\ page.download_all = page.all_files_processed
        /\ ~page.all_files_processed =>
              /\ <<"Some files could not be processed.">> \in page.errors
              /\ ~page.download_all
        /\ Len(page.zip) = Cardinality({ k \in 1..Len(file_data) : EntryOk(k) })

\* an entry failed before an entry that succeeded: the archive holds the
\* second file, and no download is offered
C10_Witness ==
    /\ page.clicked = "all"
    /\ Len(file_data) = 2
    /\ ~EntryOk(1)
    /\ EntryOk(2)
    /\ Len(page.zip) = 1
    /\ ~page.download_all
    /\ ~page.all_files_processed

====
